---- MODULE Spec2Model ----
(***************************************************************************)
(* Hotel front-desk API (src/main.py, src/schemas.py) as a state machine.  *)
(*                                                                         *)
(* State: the three collections of the document store ("checkin", "order", *)
(* "bill"), the clock, for every request worker the handler it is in, the  *)
(* request it serves and its local variables, and the last response sent.  *)
(* Every store call of a handler is one atomic step; the steps of          *)
(* different workers interleave.  A document's store identifier (_id) is   *)
(* its position in the collection.  Money is modelled in whole currency    *)
(* units, time in seconds.                                                 *)
(*                                                                         *)
(* Documents carry the fields the handlers read or write; the Checkin      *)
(* fields no handler reads (idtype, id, address, roomType, adults,         *)
(* children, mode, remarks) and Order.name and Order.mode are left out.    *)
(* A check-in's createdAt is a time and a flag: aware (it carries a UTC     *)
(* offset, as the server's own datetime.now(timezone.utc) does) or naive   *)
(* (a client-supplied value without offset); the store hands back what was *)
(* stored.  Orders are created without a client createdAt.  The list       *)
(* endpoints, the root and the diagnostics endpoint change no state and    *)
(* have no action.  billSrc and coLog are history variables: for every     *)
(* bill, the check-in and the orders its checkout had read; for every      *)
(* check-in status update, the checkout that made it.                      *)
(***************************************************************************)
EXTENDS Integers, Sequences, FiniteSets, TLC

VARIABLES checkins, orders, bills, now, ticks, pc, req, loc, resp, billSrc, coLog

vars == <<checkins, orders, bills, now, ticks, pc, req, loc, resp, billSrc, coLog>>

\* ---------------------------------------------------------------- bounds
MaxCheckins == 2
MaxOrders == 2
MaxBills == 2
MaxTicks == 2

\* ------------------------------------------------------- program constants
SecondsPerDay == 86400
TaxPercent == 12

\* ------------------------------------------------------------ input sets
Procs == {"w1", "w2"}
Rooms == {"101", "102"}
Phones == {"p1", "p2"}
Names == {"Ann"}
Modes == {"Cash", "UPI"}
BillIds == {"BILL-0000000A", "BILL-0000000B"}
TickSeconds == {3600, 86400}
NoTime == -1
FutureTime == 10 * 86400

NoDoc == [nil |-> TRUE]
NoReq == [kind |-> "none"]
NoResp == [req |-> NoReq, code |-> 0]
NoLoc == [data |-> NoDoc, c |-> 0, cdoc |-> NoDoc, nights |-> 0, room_charges |-> 0,
          orders |-> {}, bill |-> NoDoc, at |-> NoTime, norders |-> 0, billno |-> 0]

\* ------------------------------------------------------------ helpers
Max(a, b) == IF a >= b THEN a ELSE b

MinOf(S) == CHOOSE x \in S : \A y \in S : x <= y

RECURSIVE SumItems(_)
SumItems(items) ==
    IF items = <<>> THEN 0
    ELSE Head(items).qty * Head(items).price + SumItems(Tail(items))

RECURSIVE SumTotals(_)
SumTotals(S) ==
    IF S = {} THEN 0
    ELSE LET i == MinOf(S) IN orders[i].total + SumTotals(S \ {i})

\* Python round(): nearest integer, ties to the even one; n is the value in
\* hundredths.
RoundHundredths(n) ==
    LET q == n \div 100
        r == n % 100
    IN  IF r > 50 THEN q + 1
        ELSE IF r < 50 THEN q
        ELSE IF q % 2 = 0 THEN q ELSE q + 1


\* The document store's insert: the collection with doc appended; the new
\* document's _id is its position.
InsertDoc(coll, doc) == Append(coll, doc)

\* ------------------------------------------------------------ request inputs
\* POST /api/checkins bodies (schemas.Checkin); createdAt = NoTime is an absent
\* createdAt, status = "" a falsy status.
CheckinPayloads ==
    [name : Names, phone : {"p1"}, room : {"101"}, rate : {1000}, advance : {200},
     createdAt : {NoTime}, aware : {TRUE}, status : {"Occupied"}]

CheckinBody(phone, room, status) ==
    [name |-> "Ann", phone |-> phone, room |-> room, rate |-> 1000, advance |-> 200,
     createdAt |-> NoTime, aware |-> TRUE, status |-> status]

CheckinPayloadsSeq ==
    {CheckinBody("p1", "101", ""), CheckinBody("p2", "101", ""),
     CheckinBody("p1", "102", ""), CheckinBody("p1", "101", "Checked-out")}

\* createdAt absent, supplied with a UTC offset, supplied without one.
CheckinPayloadsBill ==
    {[name |-> "Ann", phone |-> "p1", room |-> "101", rate |-> 1000, advance |-> 200,
      createdAt |-> t[1], aware |-> t[2], status |-> ""] :
        t \in {<<NoTime, TRUE>>, <<FutureTime, TRUE>>, <<FutureTime, FALSE>>}}

Item(q, pr) == [name |-> "tea", qty |-> q, price |-> pr]

\* POST /api/orders bodies (schemas.Order).
OrderPayloads ==
    [type : {"inhouse"}, room : {"101"}, phone : {"p2"},
     items : {<<Item(1, 150)>>}, total : {0}, status : {"Unpaid"}, synced : {FALSE}]

OrderPayloadsSeq ==
    [type : {"inhouse"}, room : {"101"}, phone : {"p2"},
     items : {<<Item(1, 150)>>}, total : {0}, status : {"Unpaid"}, synced : {FALSE}]

OrderBody(type, room, status) ==
    [type |-> type, room |-> room, phone |-> "p2", items |-> <<Item(1, 150)>>,
     total |-> 0, status |-> status, synced |-> FALSE]

OrderPayloadsBill ==
    {OrderBody("inhouse", "101", "Unpaid"), OrderBody("inhouse", "102", "Unpaid"),
     OrderBody("outside", "101", "Unpaid"), OrderBody("inhouse", "101", "Paid")}

OrderPayloadsWide ==
    [type : {"inhouse", "outside"}, room : {"101"}, phone : {"p1"},
     items : {<<>>, <<Item(2, 100), Item(1, 50)>>, <<Item(0, 100)>>,
              <<Item(0, 100), Item(3, 0)>>, <<Item(1, 150)>>},
     total : {0, 300}, status : {"Unpaid"}, synced : {FALSE, TRUE}]

\* ------------------------------------------------------------ initial state
Init ==
    /\ checkins = <<>>
    /\ orders = <<>>
    /\ bills = <<>>
    /\ now = 0
    /\ ticks = 0
    /\ pc = [p \in Procs |-> "idle"]
    /\ req = [p \in Procs |-> NoReq]
    /\ loc = [p \in Procs |-> NoLoc]
    /\ resp = NoResp
    /\ billSrc = <<>>
    /\ coLog = {}

\* ------------------------------------------------------------ check-ins
\* model_dump plus the createdAt and status defaults.
CheckinData(payload) ==
    [name |-> payload.name, phone |-> payload.phone, room |-> payload.room,
     rate |-> payload.rate, advance |-> payload.advance,
     createdAt |-> IF payload.createdAt = NoTime THEN now ELSE payload.createdAt,
     aware |-> IF payload.createdAt = NoTime THEN TRUE ELSE payload.aware,
     status |-> IF payload.status = "" THEN "Occupied" ELSE payload.status,
     updated_at |-> NoTime]

\* Fault variant of FindOccupied: the status literal is misspelt.
FindOccupied_lowercase(room) ==
    {i \in DOMAIN checkins : checkins[i].room = room /\ checkins[i].status = "occupied"}

\* db["checkin"].find_one({"room": room, "status": "Occupied"}): the matches.
FindOccupied(room) ==
    {i \in DOMAIN checkins : checkins[i].room = room /\ checkins[i].status = "Occupied"}

CheckinReq(payload) == [kind |-> "checkin", payload |-> payload]

OrderReq(payload) == [kind |-> "order", payload |-> payload]

PayReq(bill_id, mode) == [kind |-> "pay", bill_id |-> bill_id, mode |-> mode]

CheckoutReq(room, phone) == [kind |-> "checkout", room |-> room, phone |-> phone]

PendingCheckinInserts == Cardinality({q \in Procs : pc[q] = "ci_insert"})

\* create_checkin up to and including the existence check.
CreateCheckinFind(p, payload) ==
    /\ pc[p] = "idle"
    /\ IF FindOccupied(CheckinData(payload).room) # {}
       THEN /\ resp' = [req |-> CheckinReq(payload), code |-> 400]
            /\ UNCHANGED <<pc, req, loc>>
       ELSE /\ Len(checkins) + PendingCheckinInserts < MaxCheckins
            /\ pc' = [pc EXCEPT ![p] = "ci_insert"]
            /\ req' = [req EXCEPT ![p] = CheckinReq(payload)]
            /\ loc' = [loc EXCEPT ![p] = [NoLoc EXCEPT !.data = CheckinData(payload)]]
            /\ resp' = resp
    /\ UNCHANGED <<checkins, orders, bills, now, ticks, billSrc, coLog>>

\* create_checkin's create_document("checkin", data) and its return.
CreateCheckinInsert(p) ==
    /\ pc[p] = "ci_insert"
    /\ checkins' = InsertDoc(checkins, loc[p].data)
    /\ pc' = [pc EXCEPT ![p] = "idle"]
    /\ resp' = [req |-> req[p], code |-> 200]
    /\ req' = [req EXCEPT ![p] = NoReq]
    /\ loc' = [loc EXCEPT ![p] = NoLoc]
    /\ UNCHANGED <<orders, bills, now, ticks, billSrc, coLog>>

\* ------------------------------------------------------------ orders
\* Fault variant of OrderTotal: no fallback to the supplied total.
OrderTotal_alwaysSum(items, total) ==
    IF items # <<>> THEN SumItems(items) ELSE total

\* data["total"] of create_order: sum(qty * price) or the supplied total.
OrderTotal(items, total) ==
    IF items # <<>>
    THEN (IF SumItems(items) # 0 THEN SumItems(items) ELSE total)
    ELSE total

OrderData(payload) ==
    [type |-> payload.type, room |-> payload.room, phone |-> payload.phone,
     items |-> payload.items, total |-> OrderTotal(payload.items, payload.total),
     status |-> payload.status, synced |-> payload.synced,
     createdAt |-> now, updated_at |-> NoTime]

\* create_order: one insert.
CreateOrder(p, payload) ==
    /\ pc[p] = "idle"
    /\ Len(orders) < MaxOrders
    /\ orders' = InsertDoc(orders, OrderData(payload))
    /\ resp' = [req |-> OrderReq(payload), code |-> 200]
    /\ UNCHANGED <<checkins, bills, now, ticks, pc, req, loc, billSrc, coLog>>

\* ------------------------------------------------------------ bills
\* Fault variant of PaidBill: the mode is not written.
PaidBill_keepMode(b, mode) ==
    [b EXCEPT !.status = "Paid", !.updated_at = now]

\* The $set of mark_bill_paid applied to one bill.
PaidBill(b, mode) ==
    [b EXCEPT !.status = "Paid", !.mode = mode, !.updated_at = now]

\* mark_bill_paid: update_one on the first bill whose id matches.
MarkBillPaid(p, bill_id, mode) ==
    /\ pc[p] = "idle"
    /\ LET matched == {i \in DOMAIN bills : bills[i].id = bill_id}
           r == PayReq(bill_id, mode)
       IN  IF matched = {}
           THEN /\ bills' = bills
                /\ resp' = [req |-> r, code |-> 404]
           ELSE /\ bills' = [bills EXCEPT ![MinOf(matched)] = PaidBill(@, mode)]
                /\ resp' = [req |-> r, code |-> 200]
    /\ UNCHANGED <<checkins, orders, now, ticks, pc, req, loc, billSrc, coLog>>


\* ------------------------------------------------------------ checkout
\* Fault variant of FindActive: the phone is not part of the filter.
FindActive_anyPhone(room, phone) ==
    {i \in DOMAIN checkins : checkins[i].room = room /\ checkins[i].status = "Occupied"}

\* db["checkin"].find_one({"room", "phone", "status": "Occupied"}): the matches.
FindActive(room, phone) ==
    {i \in DOMAIN checkins :
        /\ checkins[i].room = room
        /\ checkins[i].phone = phone
        /\ checkins[i].status = "Occupied"}

\* Fault variant of Nights: the elapsed-day index is not incremented.
Nights_noPlusOne(start, tnow) ==
    Max(1, (tnow - start) \div SecondsPerDay)

\* max(1, int(total_seconds // 86400) + 1)
Nights(start, tnow) ==
    Max(1, ((tnow - start) \div SecondsPerDay) + 1)

\* db["order"].find({"type": "inhouse", "room": room, "status": "Unpaid"})
UnpaidInhouse(room) ==
    {i \in DOMAIN orders :
        /\ orders[i].type = "inhouse"
        /\ orders[i].room = room
        /\ orders[i].status = "Unpaid"}

\* round(subtotal * 0.12)
Tax(subtotal) == RoundHundredths(subtotal * TaxPercent)

\* The Bill built from the fetched check-in, the nights and the fetched orders.
MakeBill(id, c, nights, room_charges, food_total) ==
    [id |-> id, guest |-> c.name, phone |-> c.phone, room |-> c.room,
     nights |-> nights, roomCharges |-> room_charges, foodTotal |-> food_total,
     advance |-> c.advance, tax |-> Tax(room_charges + food_total),
     total |-> room_charges + food_total + Tax(room_charges + food_total) - c.advance,
     status |-> "Unpaid", mode |-> "Cash", createdAt |-> now, updated_at |-> NoTime]

PendingBillInserts == Cardinality({q \in Procs : pc[q] \in {"co_orders", "co_bill"}})

\* create_final_bill up to the room charges: the check-in lookup and the nights.
\* Subtracting a naive createdAt from the aware current time raises TypeError
\* outside the try block: the request ends with a server error.
CheckoutFind(p, room, phone) ==
    /\ pc[p] = "idle"
    /\ LET found == FindActive(room, phone)
           r == CheckoutReq(room, phone)
       IN  IF found = {}
           THEN /\ resp' = [req |-> r, code |-> 404]
                /\ UNCHANGED <<pc, req, loc>>
           ELSE IF ~checkins[MinOf(found)].aware
           THEN /\ resp' = [req |-> r, code |-> 500]
                /\ UNCHANGED <<pc, req, loc>>
           ELSE LET i == MinOf(found)
                    c == checkins[i]
                    n == Nights(c.createdAt, now)
                IN  /\ Len(bills) + PendingBillInserts < MaxBills
                    /\ pc' = [pc EXCEPT ![p] = "co_orders"]
                    /\ req' = [req EXCEPT ![p] = r]
                    /\ loc' = [loc EXCEPT ![p] =
                                 [NoLoc EXCEPT !.c = i, !.cdoc = c, !.nights = n,
                                               !.room_charges = n * c.rate, !.at = now]]
                    /\ resp' = resp
    /\ UNCHANGED <<checkins, orders, bills, now, ticks, billSrc, coLog>>

\* The order fetch, the totals and the Bill object; id is the identifier
\* that os.urandom yields.
CheckoutFetchOrders(p, id) ==
    /\ pc[p] = "co_orders"
    /\ LET os == UnpaidInhouse(req[p].room)
       IN  loc' = [loc EXCEPT ![p].orders = os,
                              ![p].norders = Len(orders),
                              ![p].bill = MakeBill(id, loc[p].cdoc, loc[p].nights,
                                                   loc[p].room_charges, SumTotals(os))]
    /\ pc' = [pc EXCEPT ![p] = "co_bill"]
    /\ UNCHANGED <<checkins, orders, bills, now, ticks, req, resp, billSrc, coLog>>

\* create_document("bill", bill)
CheckoutInsertBill(p) ==
    /\ pc[p] = "co_bill"
    /\ bills' = InsertDoc(bills, loc[p].bill)
    /\ billSrc' = Append(billSrc, [checkin |-> loc[p].c, orders |-> loc[p].orders,
                                   norders |-> loc[p].norders, at |-> loc[p].at])
    /\ loc' = [loc EXCEPT ![p].billno = Len(bills) + 1]
    /\ pc' = [pc EXCEPT ![p] = "co_sync"]
    /\ UNCHANGED <<checkins, orders, now, ticks, req, resp, coLog>>

\* Fault variant of SyncTargets: the filter is evaluated again at update time.
SyncTargets_refilter(p) == UnpaidInhouse(req[p].room)

\* The _id list of update_many: the orders fetched earlier.
SyncTargets(p) == loc[p].orders

\* db["order"].update_many({"_id": {"$in": ...}}, {"$set": {"synced": True, ...}})
CheckoutSyncOrders(p) ==
    /\ pc[p] = "co_sync"
    /\ orders' = [i \in DOMAIN orders |->
                    IF i \in SyncTargets(p)
                    THEN [orders[i] EXCEPT !.synced = TRUE, !.updated_at = now]
                    ELSE orders[i]]
    /\ pc' = [pc EXCEPT ![p] = "co_free"]
    /\ UNCHANGED <<checkins, bills, now, ticks, req, loc, resp, billSrc, coLog>>

\* Fault variant of FreeRoomAt: the room may be freed before the order update.
FreeRoomAt_early(p) == pc[p] \in {"co_sync", "co_free"}

\* The room is freed after the bill insert and the order update have returned.
FreeRoomAt(p) == pc[p] = "co_free"

\* db["checkin"].update_one({"_id": c["_id"]}, {"$set": {"status": "Checked-out", ...}})
CheckoutFreeRoom(p) ==
    /\ FreeRoomAt(p)
    /\ checkins' = [checkins EXCEPT ![loc[p].c].status = "Checked-out",
                                    ![loc[p].c].updated_at = now]
    /\ coLog' = coLog \cup {[checkin |-> loc[p].c, billno |-> loc[p].billno,
                             orders |-> loc[p].orders]}
    /\ pc' = [pc EXCEPT ![p] = "idle"]
    /\ resp' = [req |-> req[p], code |-> 200]
    /\ req' = [req EXCEPT ![p] = NoReq]
    /\ loc' = [loc EXCEPT ![p] = NoLoc]
    /\ UNCHANGED <<orders, bills, now, ticks, billSrc>>

\* A store call fails: the exception propagates, the request ends with a
\* server error and nothing written so far is undone.
StoreFailure(p) ==
    /\ pc[p] \in {"ci_insert", "co_orders", "co_bill", "co_sync", "co_free"}
    /\ pc' = [pc EXCEPT ![p] = "idle"]
    /\ resp' = [req |-> req[p], code |-> 500]
    /\ req' = [req EXCEPT ![p] = NoReq]
    /\ loc' = [loc EXCEPT ![p] = NoLoc]
    /\ UNCHANGED <<checkins, orders, bills, now, ticks, billSrc, coLog>>

\* The first store call of request r fails (find_one of create_checkin and of
\* create_final_bill, create_document of create_order, update_one of
\* mark_bill_paid): a server error, nothing read, nothing written.
StoreFailureAtFirstCall(p, r) ==
    /\ pc[p] = "idle"
    /\ resp' = [req |-> r, code |-> 500]
    /\ UNCHANGED <<checkins, orders, bills, now, ticks, pc, req, loc, billSrc, coLog>>

\* datetime.now(timezone.utc) advances.
Tick(d) ==
    /\ ticks < MaxTicks
    /\ now' = now + d
    /\ ticks' = ticks + 1
    /\ UNCHANGED <<checkins, orders, bills, pc, req, loc, resp, billSrc, coLog>>

\* ------------------------------------------------------------ specifications
\* The requests of Next.
Requests ==
    {CheckinReq(d) : d \in CheckinPayloads} \cup {OrderReq(d) : d \in OrderPayloads}
        \cup {PayReq("BILL-0000000A", "UPI"), CheckoutReq("101", "p1")}

\* Two workers, interleaved store calls, store failures at any store call.
\* The generated bill identifiers collide.
Next ==
    \/ \E p \in Procs, d \in CheckinPayloads : CreateCheckinFind(p, d)
    \/ \E p \in Procs : CreateCheckinInsert(p)
    \/ \E p \in Procs, d \in OrderPayloads : CreateOrder(p, d)
    \/ \E p \in Procs, b \in {"BILL-0000000A"}, m \in {"UPI"} : MarkBillPaid(p, b, m)
    \/ \E p \in Procs, r \in {"101"}, ph \in {"p1"} : CheckoutFind(p, r, ph)
    \/ \E p \in Procs, id \in {"BILL-0000000A"} : CheckoutFetchOrders(p, id)
    \/ \E p \in Procs : CheckoutInsertBill(p)
    \/ \E p \in Procs : CheckoutSyncOrders(p)
    \/ \E p \in Procs : CheckoutFreeRoom(p)
    \/ \E p \in Procs : StoreFailure(p)
    \/ \E p \in Procs, r \in Requests : StoreFailureAtFirstCall(p, r)

Spec == Init /\ [][Next]_vars


\* One worker, no store failure: requests run one after the other.
NextSeq ==
    \/ \E d \in CheckinPayloadsSeq : CreateCheckinFind("w1", d)
    \/ CreateCheckinInsert("w1")
    \/ \E d \in OrderPayloadsSeq : CreateOrder("w1", d)
    \/ \E r \in Rooms, ph \in Phones : CheckoutFind("w1", r, ph)
    \/ \E id \in BillIds : CheckoutFetchOrders("w1", id)
    \/ CheckoutInsertBill("w1")
    \/ CheckoutSyncOrders("w1")
    \/ CheckoutFreeRoom("w1")

SpecSeq == Init /\ [][NextSeq]_vars

\* The bill computation: a guest has just checked in (the state a successful
\* create_checkin leaves at time 0); orders arrive, the clock moves, the guest
\* checks out.
InitBill ==
    /\ now = 0
    /\ ticks = 0
    /\ checkins \in {<<CheckinData(d)>> : d \in CheckinPayloadsBill}
    /\ orders = <<>>
    /\ bills = <<>>
    /\ pc = [p \in Procs |-> "idle"]
    /\ req = [p \in Procs |-> NoReq]
    /\ loc = [p \in Procs |-> NoLoc]
    /\ resp = NoResp
    /\ billSrc = <<>>
    /\ coLog = {}

NextBill ==
    \/ \E d \in OrderPayloadsBill : CreateOrder("w1", d)
    \/ \E r \in {"101"}, ph \in {"p1"} : CheckoutFind("w1", r, ph)
    \/ \E id \in BillIds : CheckoutFetchOrders("w1", id)
    \/ CheckoutInsertBill("w1")
    \/ CheckoutSyncOrders("w1")
    \/ CheckoutFreeRoom("w1")
    \/ \E d \in TickSeconds : Tick(d)

SpecBill == InitBill /\ [][NextBill]_vars

\* One worker, one guest: stays, orders, checkouts and payments of the bills.
NextPay ==
    \/ \E d \in CheckinPayloads : CreateCheckinFind("w1", d)
    \/ CreateCheckinInsert("w1")
    \/ \E d \in OrderPayloads : CreateOrder("w1", d)
    \/ \E b \in BillIds, m \in Modes : MarkBillPaid("w1", b, m)
    \/ \E r \in {"101"}, ph \in {"p1"} : CheckoutFind("w1", r, ph)
    \/ \E id \in BillIds : CheckoutFetchOrders("w1", id)
    \/ CheckoutInsertBill("w1")
    \/ CheckoutSyncOrders("w1")
    \/ CheckoutFreeRoom("w1")

SpecPay == Init /\ [][NextPay]_vars

\* Order creation alone, over a wide range of request bodies.
NextOrders ==
    \E p \in Procs, d \in OrderPayloadsWide : CreateOrder(p, d)

SpecOrders == Init /\ [][NextOrders]_vars


\* ================================================================ claims
OccupiedIn(room) ==
    {i \in DOMAIN checkins : checkins[i].room = room /\ checkins[i].status = "Occupied"}

ItemSum(items) ==
    LET S[k \in 0..Len(items)] ==
            IF k = 0 THEN 0 ELSE S[k - 1] + items[k].qty * items[k].price
    IN  S[Len(items)]

\* C1: in every reachable state every room has at most one check-in with
\* status Occupied, also when create-checkin requests for one room interleave
\* between the existence check and the insert.
C1_OneOccupiedPerRoom ==
    \A r \in Rooms : Cardinality(OccupiedIn(r)) <= 1

\* C2: a create-checkin request for a room that has an Occupied check-in is
\* answered 400 and leaves the checkin collection as it was: nothing is
\* inserted, nothing is modified, and the request does not go on to the insert.
C2_ConflictRejected ==
    [][\A p \in Procs, d \in CheckinPayloadsSeq :
         (CreateCheckinFind(p, d) /\ OccupiedIn(d.room) # {})
            => /\ resp'.code = 400
               /\ resp'.req = [kind |-> "checkin", payload |-> d]
               /\ checkins' = checkins
               /\ pc'[p] = "idle"]_vars

C2_Witness ==
    /\ resp.req.kind = "checkin"
    /\ resp.code = 400
    /\ OccupiedIn(resp.req.payload.room) # {}
    /\ \A p \in Procs : pc[p] = "idle"

\* C3: every persisted Bill equals the reference computation over the
\* check-in and the orders its checkout read: nights = max(1, whole elapsed
\* days + 1), roomCharges = nights * rate, foodTotal = the sum of total over
\* exactly the orders of type inhouse, of the bill's room and of status Unpaid
\* that existed at the fetch (of any phone), tax = 12% of roomCharges +
\* foodTotal rounded to the nearest unit, total = roomCharges + foodTotal +
\* tax - advance.  (A check-in whose createdAt has no UTC offset gets no Bill:
\* its checkout ends with a server error.)
C3_BillIsReference ==
    \A b \in DOMAIN bills :
        LET src == billSrc[b]
            c == checkins[src.checkin]
            elapsed == src.at - c.createdAt
            days == CHOOSE k \in -30..30 :
                        k * 86400 <= elapsed /\ elapsed < (k + 1) * 86400
            nights == IF days + 1 > 1 THEN days + 1 ELSE 1
            matching == {i \in 1..src.norders :
                            /\ orders[i].type = "inhouse"
                            /\ orders[i].room = c.room
                            /\ orders[i].status = "Unpaid"}
            food == SumTotals(matching)
            sub == nights * c.rate + food
        IN  /\ c.aware
            /\ bills[b].nights = nights
            /\ bills[b].roomCharges = nights * c.rate
            /\ src.orders = matching
            /\ bills[b].foodTotal = food
            /\ 100 * bills[b].tax - 50 <= 12 * sub
            /\ 12 * sub <= 100 * bills[b].tax + 50
            /\ bills[b].advance = c.advance
            /\ bills[b].total = sub + bills[b].tax - c.advance
            /\ bills[b].room = c.room /\ bills[b].phone = c.phone

\* 25 hours after the check-in, rate 1000, advance 200, one matching order of
\* 150 placed under another phone and one Paid order left out: 2 nights, 2208.
C3_Witness ==
    \E b \in DOMAIN bills :
        /\ billSrc[b].at - checkins[billSrc[b].checkin].createdAt = 90000
        /\ bills[b].nights = 2
        /\ bills[b].roomCharges = 2000
        /\ bills[b].foodTotal = 150
        /\ bills[b].tax = 258
        /\ bills[b].total = 2208
        /\ Cardinality(billSrc[b].orders) = 1
        /\ billSrc[b].norders = 2
        /\ \A i \in billSrc[b].orders : orders[i].phone # bills[b].phone
        /\ checkins[billSrc[b].checkin].status = "Checked-out"

\* C4: a checkout inserts exactly one Bill, with status Unpaid and mode Cash
\* and a foodTotal that is the sum over the orders it fetched; its order
\* update sets synced on exactly those orders and touches no other order (so
\* not an order created after the fetch); and when it returns 200 the located
\* check-in is Checked-out and every fetched order is synced.
C4_CheckoutEffects ==
    [][\A p \in Procs :
         /\ CheckoutInsertBill(p)
              => /\ Len(bills') = Len(bills) + 1
                 /\ \A i \in DOMAIN bills : bills'[i] = bills[i]
                 /\ bills'[Len(bills')].status = "Unpaid"
                 /\ bills'[Len(bills')].mode = "Cash"
                 /\ bills'[Len(bills')].foodTotal = SumTotals(billSrc'[Len(bills')].orders)
                 /\ orders' = orders /\ checkins' = checkins
         /\ CheckoutSyncOrders(p)
              => /\ DOMAIN orders' = DOMAIN orders
                 /\ \A i \in DOMAIN orders :
                       IF i \in billSrc[loc[p].billno].orders
                       THEN orders'[i] = [orders[i] EXCEPT !.synced = TRUE, !.updated_at = now]
                       ELSE orders'[i] = orders[i]
                 /\ bills' = bills /\ checkins' = checkins
         /\ CheckoutFreeRoom(p)
              => /\ resp'.code = 200
                 /\ checkins'[loc[p].c].status = "Checked-out"
                 /\ \A i \in DOMAIN checkins :
                       i # loc[p].c => checkins'[i] = checkins[i]
                 /\ loc[p].billno \in DOMAIN bills
                 /\ \A i \in billSrc[loc[p].billno].orders : orders'[i].synced
                 /\ bills' = bills /\ orders' = orders]_vars

\* A checkout has returned 200; an order for its room that arrived after its
\* fetch is in the store, not among the orders it summed, and not synced.
C4_Witness ==
    /\ resp.req.kind = "checkout"
    /\ resp.code = 200
    /\ \E e \in coLog : \E i \in DOMAIN orders :
         /\ e.orders # {}
         /\ \A o \in e.orders : orders[o].synced
         /\ bills[e.billno].status = "Unpaid"
         /\ checkins[e.checkin].status = "Checked-out"
         /\ i > billSrc[e.billno].norders
         /\ orders[i].room = resp.req.room
         /\ orders[i].type = "inhouse" /\ orders[i].status = "Unpaid"
         /\ ~orders[i].synced

\* C5: a checkout for (room, phone) without a check-in of that room, that
\* phone and status Occupied is answered 404 and changes no Bill, no Order and
\* no Checkin, and goes no further.
C5_NotFoundChangesNothing ==
    [][\A p \in Procs, r \in Rooms, ph \in Phones :
         (/\ CheckoutFind(p, r, ph)
          /\ ~\E i \in DOMAIN checkins :
                 /\ checkins[i].room = r
                 /\ checkins[i].phone = ph
                 /\ checkins[i].status = "Occupied")
            => /\ resp'.code = 404
               /\ resp'.req = CheckoutReq(r, ph)
               /\ pc'[p] = "idle"
               /\ UNCHANGED <<checkins, orders, bills>>]_vars

\* The refused checkout's room is Occupied under another phone, and the
\* check-in of the requested phone is already Checked-out.
C5_Witness ==
    /\ resp.req.kind = "checkout"
    /\ resp.code = 404
    /\ \A p \in Procs : pc[p] = "idle"
    /\ \E i, j \in DOMAIN checkins :
         /\ checkins[i].room = resp.req.room
         /\ checkins[i].phone = resp.req.phone
         /\ checkins[i].status = "Checked-out"
         /\ checkins[j].room = resp.req.room
         /\ checkins[j].phone # resp.req.phone
         /\ checkins[j].status = "Occupied"

BillAmounts(b) ==
    <<b.id, b.guest, b.phone, b.room, b.nights, b.roomCharges, b.foodTotal,
      b.tax, b.advance, b.total>>

\* C6: pay(billId, mode) is answered 404 and changes no Bill when no Bill has
\* that id; otherwise it is answered 200 and the (first) Bill of that id has
\* status Paid and the supplied mode, also when it was Paid already.  No step
\* changes a Bill's amounts, and no step moves a Bill from Paid to Unpaid.
C6_Pay ==
    [][/\ \A p \in Procs, id \in BillIds, m \in Modes :
            MarkBillPaid(p, id, m)
              => IF \A i \in DOMAIN bills : bills[i].id # id
                 THEN resp'.code = 404 /\ bills' = bills
                 ELSE LET k == CHOOSE i \in DOMAIN bills :
                                  /\ bills[i].id = id
                                  /\ \A j \in 1..(i - 1) : bills[j].id # id
                      IN  /\ resp'.code = 200
                          /\ bills'[k].status = "Paid"
                          /\ bills'[k].mode = m
                          /\ \A i \in DOMAIN bills : i # k => bills'[i] = bills[i]
       /\ \A i \in DOMAIN bills :
            /\ i \in DOMAIN bills'
            /\ BillAmounts(bills'[i]) = BillAmounts(bills[i])
            /\ bills[i].status = "Paid" => bills'[i].status = "Paid"]_vars

\* The last request paid a checkout's Bill by UPI: the Bill is Paid, its mode
\* is UPI and its total is the one the checkout computed.
C6_Witness ==
    /\ resp.req.kind = "pay"
    /\ resp.code = 200
    /\ resp.req.mode = "UPI"
    /\ \E i \in DOMAIN bills :
         /\ bills[i].id = resp.req.bill_id
         /\ bills[i].status = "Paid"
         /\ bills[i].mode = "UPI"
         /\ bills[i].total = 1000 + 150 + 138 - 200

\* C7 as stated: every stored order with a non-empty items list has total =
\* the sum of qty * price over its items, whatever total the client supplied,
\* also when that sum is zero.
C7_TotalIsItemSum ==
    \A i \in DOMAIN orders :
        orders[i].items # <<>> => orders[i].total = ItemSum(orders[i].items)

\* C7 amended: the order stored by a create-order request with a non-empty
\* items list has total = the sum of qty * price when that sum is not zero,
\* and the client-supplied total when the sum is zero.
C7_TotalIsItemSumOrSupplied ==
    (resp.req.kind = "order" /\ resp.code = 200)
        => LET d == resp.req.payload
               o == orders[Len(orders)]
           IN  /\ o.items = d.items
               /\ d.items # <<>> =>
                     o.total = IF ItemSum(d.items) # 0 THEN ItemSum(d.items) ELSE d.total

\* Items 2 x 100 and 1 x 50 with a client total of 300: 250 is stored.
C7_Witness ==
    /\ resp.req.kind = "order"
    /\ resp.code = 200
    /\ resp.req.payload.items = <<Item(2, 100), Item(1, 50)>>
    /\ resp.req.payload.total = 300
    /\ orders[Len(orders)].total = 250

\* C8: checkout writes the Bill, then the synced flags, then the check-in
\* status.  In every reachable state a worker past the bill insert has its
\* Bill in the store, a worker past the order update has its fetched orders
\* synced, and every check-in a checkout set to Checked-out has that
\* checkout's Bill in the store and all the orders it fetched synced.
C8_WriteOrder ==
    /\ \A p \in Procs :
         /\ pc[p] \in {"co_sync", "co_free"}
              => /\ loc[p].billno \in DOMAIN bills
                 /\ bills[loc[p].billno] = [loc[p].bill EXCEPT
                                               !.status = bills[loc[p].billno].status,
                                               !.mode = bills[loc[p].billno].mode,
                                               !.updated_at = bills[loc[p].billno].updated_at]
         /\ pc[p] = "co_free" => \A o \in loc[p].orders : orders[o].synced
         /\ pc[p] \in {"co_orders", "co_bill"} => loc[p].billno = 0
    /\ \A e \in coLog :
         /\ checkins[e.checkin].status = "Checked-out"
         /\ e.billno \in DOMAIN bills
         /\ billSrc[e.billno].checkin = e.checkin
         /\ billSrc[e.billno].orders = e.orders
         /\ \A o \in e.orders : orders[o].synced

\* One stay was checked out in full; a later checkout was aborted by a store
\* failure after its order update: its Bill is in the store and its orders
\* are synced, and its check-in is still Occupied.
C8_Witness ==
    /\ resp.req.kind = "checkout"
    /\ resp.code = 500
    /\ \A p \in Procs : pc[p] = "idle"
    /\ coLog # {}
    /\ \E b \in DOMAIN bills :
         /\ checkins[billSrc[b].checkin].status = "Occupied"
         /\ billSrc[b].orders # {}
         /\ \A o \in billSrc[b].orders : orders[o].synced
         /\ \A e \in coLog : e.billno # b

\* C9: each order's total is folded into the foodTotal of at most one Bill.
C9_OrderFoldedOnce ==
    \A b1, b2 \in DOMAIN billSrc :
        b1 # b2 => billSrc[b1].orders \cap billSrc[b2].orders = {}

\* C10: each check-in gives rise to at most one Bill.
C10_OneBillPerStay ==
    \A b1, b2 \in DOMAIN billSrc :
        b1 # b2 => billSrc[b1].checkin # billSrc[b2].checkin

====
